---- MODULE Spec2Model ----
(***************************************************************************)
(* Model of rtsp_to_rtmp_streamer.py: the supervisor main() that validates *)
(* each configured camera, launches one ffmpeg worker per camera, polls    *)
(* the workers and restarts or drops the ones that exited, and the signal  *)
(* handler that runs cleanup_processes and exits.                          *)
(*                                                                         *)
(* main() runs in one thread; a Python signal handler can run between any  *)
(* two steps of it, so main is cut at the calls it makes (validate, open   *)
(* of the log file, Popen, the assignment into the registry, poll, close,  *)
(* sleep).  Workers are external processes that may exit at any time.      *)
(***************************************************************************)
EXTENDS Integers, Sequences, FiniteSets, TLC

\* ---- bounds ----
MaxCameras == 2
MaxHandles == 4
MaxSignals == 2
MaxInstances == 3

Ids == {"a", "b"}

\* the supervisor invocations (each is its own process, pid = its number)
Insts == 1..MaxInstances

VARIABLES
  cameras,      \* the loaded feed list: sequence of camera ids (row order)
  processes,    \* the registry dict, in insertion order: seq of [id, h]
  workers,      \* every Popen/log handle ever opened: seq of records
  pc,           \* position of main
  i,            \* index of the startup pass in cameras
  snap,         \* list(processes.items()) of the current poll pass
  j,            \* index of the poll pass in snap
  cur,          \* handle being launched (local log_handle / process), 0 if none
  signals,      \* termination signals delivered so far
  cleanups,     \* number of cleanup_processes invocations so far
  lastFailed,   \* handles whose terminate() raised in the last cleanup
  abandoned,    \* rows of cameras that failed validation or launch
  sres,         \* startup result of every row
  vcount,       \* validate calls made for every row by the startup pass
  phase,        \* "startup" until the while loop is entered first
  deadAtStart,  \* registered handles already exited when the pass started
  ev,           \* the last call made
  exitCode,     \* -1 while running
  logs,         \* per feed id: the workers whose output is in <id>.log
  capOpen,      \* a cv2.VideoCapture left open by a returned validate call
  rv,           \* validate calls made for the exit being handled
  rl,           \* launch calls made for the exit being handled
  pidFile,      \* run_as_daemon: pid recorded in stream.pid, 0 if the file is absent
  dpc,          \* run_as_daemon: position of every supervisor invocation
  dread         \* run_as_daemon: the pid an invocation read from stream.pid

mainVars == <<cameras, processes, workers, pc, i, snap, j, cur, signals, cleanups,
              lastFailed, abandoned, sres, vcount, phase, deadAtStart, ev, exitCode,
              logs, capOpen, rv, rl>>

daemonVars == <<pidFile, dpc, dread>>

vars == <<mainVars, daemonVars>>

\* ---- the feed list (load_camera_data): ids are not checked for duplicates ----
RECURSIVE SeqsUpTo(_)
SeqsUpTo(n) ==
  IF n = 0 THEN {<<>>}
  ELSE LET S == SeqsUpTo(n - 1)
       IN S \cup {Append(s, c) : s \in {t \in S : Len(t) = n - 1}, c \in Ids}

CameraLists == SeqsUpTo(MaxCameras)

\* ---- the registry dict ----
Keys(ps) == {ps[k].id : k \in 1..Len(ps)}

Has(ps, id) == id \in Keys(ps)

Get(ps, id) == ps[CHOOSE k \in 1..Len(ps) : ps[k].id = id].h

\* processes[id] = h : an existing key keeps its position
Put(ps, id, h) ==
  IF Has(ps, id)
  THEN [k \in 1..Len(ps) |-> IF ps[k].id = id THEN [id |-> id, h |-> h] ELSE ps[k]]
  ELSE Append(ps, [id |-> id, h |-> h])

DelKeep(ps, id) == ps

DelAll(ps, id) == <<>>

\* del processes[id]
Del(ps, id) == SelectSeq(ps, LAMBDA e : e.id # id)

\* list(processes.items())
Snapshot(ps) == ps

\* ---- worker handles ----
NewWorker(rec) ==
  [rec |-> rec, spawned |-> FALSE, alive |-> FALSE, logOpen |-> TRUE,
   closes |-> 0, terms |-> 0]

CloseSkip(w, h) == w

\* log_handle.close()
Close(w, h) == [w EXCEPT ![h].logOpen = FALSE, ![h].closes = @ + 1]

\* open(log_file, 'w'): the file is truncated
Truncate(content) == {}

LaunchFailedLeak(w, h) == w

\* stream_rtsp_to_rtmp, except branch: if 'log_handle' in locals():
\* log_handle.close(); return None
LaunchFailed(w, h) == Close(w, h)

pollInverted(w, h) == w[h].alive

\* process.poll() is not None
poll(w, h) == ~w[h].alive

\* process.terminate() returning normally, then log_handle.close()
TermOk(w, h) ==
  [w EXCEPT ![h].alive = FALSE, ![h].terms = @ + 1,
            ![h].logOpen = FALSE, ![h].closes = @ + 1]

\* process.terminate() raising: the close of the log handle is skipped
TermFail(w, h) == [w EXCEPT ![h].terms = @ + 1]

RECURSIVE CleanupFrom(_, _, _, _)
CleanupFrom(ps, k, w, F) ==
  IF k > Len(ps) THEN w
  ELSE LET h == ps[k].h
       IN CleanupFrom(ps, k + 1, IF h \in F THEN TermFail(w, h) ELSE TermOk(w, h), F)

RECURSIVE CleanupAbortFrom(_, _, _, _)
CleanupAbortFrom(ps, k, w, F) ==
  IF k > Len(ps) THEN w
  ELSE LET h == ps[k].h
       IN IF h \in F THEN TermFail(w, h)
          ELSE CleanupAbortFrom(ps, k + 1, TermOk(w, h), F)

cleanup_abort(ps, w, F) == CleanupAbortFrom(ps, 1, w, F)

\* cleanup_processes(processes); F = the entries whose terminate() raises
cleanup_processes(ps, w, F) == CleanupFrom(ps, 1, w, F)

\* the exit paths of is_rtsp_url_valid
ValidatePaths == {"ok", "open_failed", "read_failed", "open_raised", "read_raised"}

\* is_rtsp_url_valid: the result, and whether the capture is still open at
\* the return.  cap.release() is called only after a cap.read() that
\* returned; a failed open and a raising VideoCapture(...) opened nothing;
\* a raising cap.read() goes to the except branch with the capture open.
is_rtsp_url_valid(path) ==
  [ok |-> path = "ok", open |-> path = "read_raised"]

\* the inner for loop of the restart: the first row with this id
FindCamera(id) == CHOOSE k \in 1..Len(cameras) :
                    cameras[k] = id /\ \A m \in 1..(k - 1) : cameras[m] # id

StartupBranchAlways(ok) == TRUE

\* if is_rtsp_url_valid(rtsp_url):
StartupBranch(ok) == ok

StartupAdvanceBreak(k, ok) ==
  IF ok
  THEN [i |-> k + 1, pc |-> IF k < Len(cameras) THEN "s_validate" ELSE "m_check"]
  ELSE [i |-> Len(cameras) + 1, pc |-> "m_check"]

\* next iteration of `for camera_id, rtsp_url, rtmp_url in cameras`
StartupAdvance(k, ok) ==
  [i |-> k + 1, pc |-> IF k < Len(cameras) THEN "s_validate" ELSE "m_check"]

WhileMoreThanOne(ps) == Len(ps) > 1

\* while processes:
WhileProcesses(ps) == ps # <<>>

\* next iteration of `for camera_id, process in list(processes.items())`
MonitorAdvance(k) ==
  [j |-> k + 1, pc |-> IF k < Len(snap) THEN "m_poll" ELSE "m_sleep"]

Event(op, rec, id, h, old, ok) ==
  [op |-> op, rec |-> rec, id |-> id, h |-> h, old |-> old, ok |-> ok]

Running == {"s_validate", "s_open", "s_spawn", "s_store",
            "m_check", "m_poll", "m_close", "m_validate",
            "m_open", "m_spawn", "m_store", "m_sleep"}

Handles == 1..Len(workers)

Init ==
  /\ cameras \in CameraLists
  /\ processes = <<>>
  /\ workers = <<>>
  /\ pc = "load"
  /\ i = 1
  /\ snap = <<>>
  /\ j = 1
  /\ cur = 0
  /\ signals = 0
  /\ cleanups = 0
  /\ lastFailed = {}
  /\ abandoned = {}
  /\ sres = [k \in 1..Len(cameras) |-> "none"]
  /\ vcount = [k \in 1..Len(cameras) |-> 0]
  /\ phase = "startup"
  /\ deadAtStart = {}
  /\ ev = Event("init", 0, "", 0, 0, TRUE)
  /\ exitCode = -1
  /\ logs = [id \in Ids |-> {}]
  /\ capOpen = FALSE
  /\ rv = 0
  /\ rl = 0
  /\ pidFile = 0
  /\ dpc = [p \in Insts |-> "off"]
  /\ dread = [p \in Insts |-> 0]

\* ---- main, before the startup pass ----

\* cameras = load_camera_data(); if not cameras: sys.exit(1); handlers installed
Load ==
  /\ pc = "load"
  /\ IF cameras = <<>>
     THEN /\ pc' = "exited"
          /\ exitCode' = 1
     ELSE /\ pc' = "s_validate"
          /\ exitCode' = exitCode
  /\ ev' = Event("load", 0, "", 0, 0, cameras # <<>>)
  /\ UNCHANGED <<cameras, processes, workers, i, snap, j, cur, signals, cleanups,
                 lastFailed, abandoned, sres, vcount, phase, deadAtStart>>
  /\ UNCHANGED logs
  /\ UNCHANGED capOpen
  /\ UNCHANGED rv
  /\ UNCHANGED rl
  /\ UNCHANGED daemonVars

\* ---- the startup pass ----

\* is_rtsp_url_valid(rtsp_url) for row i; on False the row is skipped
StartupValidate ==
  /\ pc = "s_validate"
  /\ \E path \in ValidatePaths :
       LET ok == is_rtsp_url_valid(path).ok
           nx == IF StartupBranch(ok) THEN [i |-> i, pc |-> "s_open"]
                 ELSE StartupAdvance(i, ok)
       IN /\ vcount' = [vcount EXCEPT ![i] = @ + 1]
          /\ sres' = [sres EXCEPT ![i] = IF ok THEN "vok" ELSE "vfail"]
          /\ abandoned' = IF ok THEN abandoned ELSE abandoned \cup {i}
          /\ i' = nx.i
          /\ pc' = nx.pc
          /\ capOpen' = (capOpen \/ is_rtsp_url_valid(path).open)
          /\ ev' = Event("s_validate", i, cameras[i], 0, 0, ok)
  /\ UNCHANGED <<cameras, processes, workers, snap, j, cur, signals, cleanups,
                 lastFailed, phase, deadAtStart, exitCode>>
  /\ UNCHANGED logs
  /\ UNCHANGED rv
  /\ UNCHANGED rl
  /\ UNCHANGED daemonVars

\* stream_rtsp_to_rtmp: log_handle = open(log_file, 'w'); a failed open
\* returns None and the row is dropped
StartupOpen ==
  /\ pc = "s_open"
  /\ \/ /\ Len(workers) < MaxHandles
        /\ workers' = Append(workers, NewWorker(i))
        /\ cur' = Len(workers) + 1
        /\ pc' = "s_spawn"
        /\ ev' = Event("s_open", i, cameras[i], Len(workers) + 1, 0, TRUE)
        /\ logs' = [logs EXCEPT ![cameras[i]] = Truncate(@)]
        /\ UNCHANGED <<i, sres, abandoned>>
     \/ /\ sres' = [sres EXCEPT ![i] = "lfail"]
        /\ abandoned' = abandoned \cup {i}
        /\ i' = StartupAdvance(i, FALSE).i
        /\ pc' = StartupAdvance(i, FALSE).pc
        /\ ev' = Event("s_open", i, cameras[i], 0, 0, FALSE)
        /\ UNCHANGED <<workers, cur, logs>>
  /\ UNCHANGED <<cameras, processes, snap, j, signals, cleanups, lastFailed,
                 vcount, phase, deadAtStart, exitCode>>
  /\ UNCHANGED capOpen
  /\ UNCHANGED rv
  /\ UNCHANGED rl
  /\ UNCHANGED daemonVars

\* stream_rtsp_to_rtmp: subprocess.Popen(...); on an exception the log
\* handle is closed and None is returned
StartupSpawn ==
  /\ pc = "s_spawn"
  /\ \/ /\ workers' = [workers EXCEPT ![cur].spawned = TRUE, ![cur].alive = TRUE]
        /\ sres' = [sres EXCEPT ![i] = "lok"]
        /\ pc' = "s_store"
        /\ ev' = Event("s_spawn", i, cameras[i], cur, 0, TRUE)
        /\ UNCHANGED <<i, cur, abandoned>>
     \/ /\ workers' = LaunchFailed(workers, cur)
        /\ sres' = [sres EXCEPT ![i] = "lfail"]
        /\ abandoned' = abandoned \cup {i}
        /\ cur' = 0
        /\ i' = StartupAdvance(i, FALSE).i
        /\ pc' = StartupAdvance(i, FALSE).pc
        /\ ev' = Event("s_spawn", i, cameras[i], cur, 0, FALSE)
  /\ UNCHANGED <<cameras, processes, snap, j, signals, cleanups, lastFailed,
                 vcount, phase, deadAtStart, exitCode>>
  /\ UNCHANGED logs
  /\ UNCHANGED capOpen
  /\ UNCHANGED rv
  /\ UNCHANGED rl
  /\ UNCHANGED daemonVars

\* processes[camera_id] = process
StartupStore ==
  /\ pc = "s_store"
  /\ processes' = Put(processes, cameras[i], cur)
  /\ cur' = 0
  /\ i' = StartupAdvance(i, TRUE).i
  /\ pc' = StartupAdvance(i, TRUE).pc
  /\ ev' = Event("s_store", i, cameras[i], cur,
                 IF Has(processes, cameras[i]) THEN Get(processes, cameras[i]) ELSE 0,
                 TRUE)
  /\ UNCHANGED <<cameras, workers, snap, j, signals, cleanups, lastFailed,
                 abandoned, sres, vcount, phase, deadAtStart, exitCode>>
  /\ UNCHANGED logs
  /\ UNCHANGED capOpen
  /\ UNCHANGED rv
  /\ UNCHANGED rl
  /\ UNCHANGED daemonVars

\* ---- the monitor loop ----

\* while processes: for ... in list(processes.items()); main returns when
\* the registry is empty
MonitorCheck ==
  /\ pc = "m_check"
  /\ phase' = "monitor"
  /\ IF ~WhileProcesses(processes)
     THEN /\ pc' = "done"
          /\ exitCode' = 0
          /\ UNCHANGED <<snap, j, deadAtStart>>
     ELSE /\ snap' = Snapshot(processes)
          /\ j' = 1
          /\ pc' = "m_poll"
          /\ deadAtStart' = {processes[k].h : k \in {m \in 1..Len(processes) :
                                                   ~workers[processes[m].h].alive}}
          /\ exitCode' = exitCode
  /\ ev' = Event("m_check", 0, "", 0, 0, processes # <<>>)
  /\ UNCHANGED <<cameras, processes, workers, i, cur, signals, cleanups,
                 lastFailed, abandoned, sres, vcount>>
  /\ UNCHANGED logs
  /\ UNCHANGED capOpen
  /\ UNCHANGED rv
  /\ UNCHANGED rl
  /\ UNCHANGED daemonVars

\* if process.poll() is not None
MonitorPoll ==
  /\ pc = "m_poll"
  /\ LET e == snap[j]
         ex == poll(workers, e.h)
     IN /\ IF ex
           THEN /\ pc' = "m_close"
                /\ j' = j
                /\ rv' = 0
                /\ rl' = 0
           ELSE /\ pc' = MonitorAdvance(j).pc
                /\ j' = MonitorAdvance(j).j
                /\ rv' = rv
                /\ rl' = rl
        /\ ev' = Event("m_poll", 0, e.id, e.h, e.h, ex)
  /\ UNCHANGED <<cameras, processes, workers, i, snap, cur, signals, cleanups,
                 lastFailed, abandoned, sres, vcount, phase, deadAtStart, exitCode>>
  /\ UNCHANGED logs
  /\ UNCHANGED capOpen
  /\ UNCHANGED daemonVars

\* process.log_handle.close() of the exited worker
MonitorClose ==
  /\ pc = "m_close"
  /\ workers' = Close(workers, snap[j].h)
  /\ pc' = "m_validate"
  /\ ev' = Event("m_close", 0, snap[j].id, snap[j].h, snap[j].h, TRUE)
  /\ UNCHANGED <<cameras, processes, i, snap, j, cur, signals, cleanups,
                 lastFailed, abandoned, sres, vcount, phase, deadAtStart, exitCode>>
  /\ UNCHANGED logs
  /\ UNCHANGED capOpen
  /\ UNCHANGED rv
  /\ UNCHANGED rl
  /\ UNCHANGED daemonVars

MonitorValidateRetry ==
  /\ pc = "m_validate"
  /\ LET id == snap[j].id
         rec == FindCamera(id)
     IN \E path \in ValidatePaths :
          /\ rv' = rv + 1
          /\ capOpen' = (capOpen \/ is_rtsp_url_valid(path).open)
          /\ IF is_rtsp_url_valid(path).ok
             THEN /\ pc' = "m_open"
                  /\ UNCHANGED <<processes, abandoned, j>>
             ELSE IF rv = 0
                  THEN /\ pc' = "m_validate"
                       /\ UNCHANGED <<processes, abandoned, j>>
                  ELSE /\ processes' = Del(processes, id)
                       /\ abandoned' = abandoned \cup {rec}
                       /\ pc' = MonitorAdvance(j).pc
                       /\ j' = MonitorAdvance(j).j
          /\ ev' = Event("m_validate", rec, id, 0, snap[j].h,
                       is_rtsp_url_valid(path).ok)
  /\ UNCHANGED <<cameras, workers, i, snap, cur, signals, cleanups, lastFailed,
                 sres, vcount, phase, deadAtStart, exitCode>>
  /\ UNCHANGED logs
  /\ UNCHANGED rl
  /\ UNCHANGED daemonVars

\* the restart: is_rtsp_url_valid of the first row with this id; on False
\* del processes[camera_id]
MonitorValidate ==
  /\ pc = "m_validate"
  /\ LET id == snap[j].id
         rec == FindCamera(id)
     IN \E path \in ValidatePaths :
          /\ rv' = rv + 1
          /\ capOpen' = (capOpen \/ is_rtsp_url_valid(path).open)
          /\ IF is_rtsp_url_valid(path).ok
             THEN /\ pc' = "m_open"
                  /\ UNCHANGED <<processes, abandoned, j>>
             ELSE /\ processes' = Del(processes, id)
                  /\ abandoned' = abandoned \cup {rec}
                  /\ pc' = MonitorAdvance(j).pc
                  /\ j' = MonitorAdvance(j).j
          /\ ev' = Event("m_validate", rec, id, 0, snap[j].h,
                       is_rtsp_url_valid(path).ok)
  /\ UNCHANGED <<cameras, workers, i, snap, cur, signals, cleanups, lastFailed,
                 sres, vcount, phase, deadAtStart, exitCode>>
  /\ UNCHANGED logs
  /\ UNCHANGED rl
  /\ UNCHANGED daemonVars

\* stream_rtsp_to_rtmp in the restart: open of the log file
MonitorOpen ==
  /\ pc = "m_open"
  /\ LET id == snap[j].id
         rec == FindCamera(id)
     IN \/ /\ Len(workers) < MaxHandles
           /\ workers' = Append(workers, NewWorker(rec))
           /\ cur' = Len(workers) + 1
           /\ pc' = "m_spawn"
           /\ ev' = Event("m_open", rec, id, Len(workers) + 1, snap[j].h, TRUE)
           /\ logs' = [logs EXCEPT ![id] = Truncate(@)]
           /\ UNCHANGED <<processes, abandoned, j>>
        \/ /\ processes' = Del(processes, id)
           /\ abandoned' = abandoned \cup {rec}
           /\ pc' = MonitorAdvance(j).pc
           /\ j' = MonitorAdvance(j).j
           /\ ev' = Event("m_open", rec, id, 0, snap[j].h, FALSE)
           /\ UNCHANGED <<workers, cur, logs>>
  /\ rl' = rl + 1
  /\ UNCHANGED <<cameras, i, snap, signals, cleanups, lastFailed, sres, vcount,
                 phase, deadAtStart, exitCode>>
  /\ UNCHANGED capOpen
  /\ UNCHANGED rv
  /\ UNCHANGED daemonVars

\* stream_rtsp_to_rtmp in the restart: Popen; on failure close the log,
\* return None, del processes[camera_id]
MonitorSpawn ==
  /\ pc = "m_spawn"
  /\ LET id == snap[j].id
         rec == FindCamera(id)
     IN \/ /\ workers' = [workers EXCEPT ![cur].spawned = TRUE, ![cur].alive = TRUE]
           /\ pc' = "m_store"
           /\ ev' = Event("m_spawn", rec, id, cur, snap[j].h, TRUE)
           /\ UNCHANGED <<processes, abandoned, j, cur>>
        \/ /\ workers' = LaunchFailed(workers, cur)
           /\ processes' = Del(processes, id)
           /\ abandoned' = abandoned \cup {rec}
           /\ cur' = 0
           /\ pc' = MonitorAdvance(j).pc
           /\ j' = MonitorAdvance(j).j
           /\ ev' = Event("m_spawn", rec, id, cur, snap[j].h, FALSE)
  /\ UNCHANGED <<cameras, i, snap, signals, cleanups, lastFailed, sres, vcount,
                 phase, deadAtStart, exitCode>>
  /\ UNCHANGED logs
  /\ UNCHANGED capOpen
  /\ UNCHANGED rv
  /\ UNCHANGED rl
  /\ UNCHANGED daemonVars

\* processes[camera_id] = new_process
MonitorStore ==
  /\ pc = "m_store"
  /\ processes' = Put(processes, snap[j].id, cur)
  /\ cur' = 0
  /\ pc' = MonitorAdvance(j).pc
  /\ j' = MonitorAdvance(j).j
  /\ ev' = Event("m_store", FindCamera(snap[j].id), snap[j].id, cur, snap[j].h, TRUE)
  /\ UNCHANGED <<cameras, workers, i, snap, signals, cleanups, lastFailed,
                 abandoned, sres, vcount, phase, deadAtStart, exitCode>>
  /\ UNCHANGED logs
  /\ UNCHANGED capOpen
  /\ UNCHANGED rv
  /\ UNCHANGED rl
  /\ UNCHANGED daemonVars

\* time.sleep(10)
MonitorSleep ==
  /\ pc = "m_sleep"
  /\ pc' = "m_check"
  /\ ev' = Event("m_sleep", 0, "", 0, 0, TRUE)
  /\ UNCHANGED <<cameras, processes, workers, i, snap, j, cur, signals, cleanups,
                 lastFailed, abandoned, sres, vcount, phase, deadAtStart, exitCode>>
  /\ UNCHANGED logs
  /\ UNCHANGED capOpen
  /\ UNCHANGED rv
  /\ UNCHANGED rl
  /\ UNCHANGED daemonVars

\* ---- the signal handler ----

\* signal_handler up to the return of cleanup_processes(processes); a further
\* signal delivered before sys.exit(0) runs the handler again
Signal ==
  /\ pc \in Running \cup {"h_exit"}
  /\ signals < MaxSignals
  /\ \E F \in SUBSET {h \in {processes[k].h : k \in 1..Len(processes)} :
                        workers[h].alive} :
       /\ workers' = cleanup_processes(processes, workers, F)
       /\ lastFailed' = F
  /\ signals' = signals + 1
  /\ cleanups' = cleanups + 1
  /\ pc' = "h_exit"
  /\ ev' = Event("signal", 0, "", 0, 0, TRUE)
  /\ UNCHANGED <<cameras, processes, i, snap, j, cur, abandoned, sres, vcount,
                 phase, deadAtStart, exitCode>>
  /\ UNCHANGED logs
  /\ UNCHANGED capOpen
  /\ UNCHANGED rv
  /\ UNCHANGED rl
  /\ UNCHANGED daemonVars

\* sys.exit(0) of the handler
SysExit ==
  /\ pc = "h_exit"
  /\ pc' = "exited"
  /\ exitCode' = 0
  /\ ev' = Event("exit", 0, "", 0, 0, TRUE)
  /\ UNCHANGED <<cameras, processes, workers, i, snap, j, cur, signals, cleanups,
                 lastFailed, abandoned, sres, vcount, phase, deadAtStart>>
  /\ UNCHANGED logs
  /\ UNCHANGED capOpen
  /\ UNCHANGED rv
  /\ UNCHANGED rl
  /\ UNCHANGED daemonVars

\* ---- the environment: an ffmpeg worker exits by itself; by then it has
\* written its diagnostic output to the log file given to it as stdout/stderr ----
WorkerExit ==
  /\ pc \in Running
  /\ \E h \in Handles :
       /\ workers[h].alive
       /\ workers' = [workers EXCEPT ![h].alive = FALSE]
       /\ logs' = [logs EXCEPT ![cameras[workers[h].rec]] = @ \cup {h}]
       /\ ev' = Event("worker_exit", workers[h].rec, cameras[workers[h].rec], h, 0, TRUE)
  /\ UNCHANGED <<cameras, processes, pc, i, snap, j, cur, signals, cleanups,
                 lastFailed, abandoned, sres, vcount, phase, deadAtStart, exitCode>>
  /\ UNCHANGED capOpen
  /\ UNCHANGED rv
  /\ UNCHANGED rl
  /\ UNCHANGED daemonVars

Next ==
  \/ Load
  \/ StartupValidate
  \/ StartupOpen
  \/ StartupSpawn
  \/ StartupStore
  \/ MonitorCheck
  \/ MonitorPoll
  \/ MonitorClose
  \/ MonitorValidate
  \/ MonitorOpen
  \/ MonitorSpawn
  \/ MonitorStore
  \/ MonitorSleep
  \/ Signal
  \/ SysExit
  \/ WorkerExit

Spec == Init /\ [][Next]_vars

\* ---- run_as_daemon: the single-instance guard, several invocations ----

\* os.kill(pid, 0) succeeds: a supervisor with that pid is running
PidAlive(q) == q \in Insts /\ dpc[q] \notin {"off", "exited"}

\* `python rtsp_to_rtmp_streamer.py --daemon` is started
DStart(p) ==
  /\ dpc[p] = "off"
  /\ dpc' = [dpc EXCEPT ![p] = "exists"]
  /\ UNCHANGED <<mainVars, pidFile, dread>>

\* if os.path.exists(pid_file):
DExists(p) ==
  /\ dpc[p] = "exists"
  /\ dpc' = [dpc EXCEPT ![p] = IF pidFile # 0 THEN "read" ELSE "write"]
  /\ UNCHANGED <<mainVars, pidFile, dread>>

\* pid = int(open(pid_file).read()); the open raises, uncaught, when the file
\* has been removed since the test
DRead(p) ==
  /\ dpc[p] = "read"
  /\ IF pidFile = 0
     THEN /\ dpc' = [dpc EXCEPT ![p] = "exited"]
          /\ dread' = dread
     ELSE /\ dpc' = [dpc EXCEPT ![p] = "kill"]
          /\ dread' = [dread EXCEPT ![p] = pidFile]
  /\ UNCHANGED <<mainVars, pidFile>>

\* os.kill(pid, 0): running -> sys.exit(1); OSError -> go on to the remove
DKill(p) ==
  /\ dpc[p] = "kill"
  /\ dpc' = [dpc EXCEPT ![p] = IF PidAlive(dread[p]) THEN "exited" ELSE "remove"]
  /\ UNCHANGED <<mainVars, pidFile, dread>>

\* os.remove(pid_file) of the stale file; raises, uncaught, when the file is
\* already gone
DRemove(p) ==
  /\ dpc[p] = "remove"
  /\ IF pidFile = 0
     THEN dpc' = [dpc EXCEPT ![p] = "exited"]
     ELSE dpc' = [dpc EXCEPT ![p] = "write"]
  /\ pidFile' = 0
  /\ UNCHANGED <<mainVars, dread>>

\* write of the own pid, atexit.register(...); the invocation is past the
\* guard and runs the supervisor
DWrite(p) ==
  /\ dpc[p] = "write"
  /\ pidFile' = p
  /\ dpc' = [dpc EXCEPT ![p] = "guarded"]
  /\ UNCHANGED <<mainVars, dread>>

\* the supervisor exits; the atexit lambda removes stream.pid if it exists
DExit(p) ==
  /\ dpc[p] = "guarded"
  /\ pidFile' = 0
  /\ dpc' = [dpc EXCEPT ![p] = "exited"]
  /\ UNCHANGED <<mainVars, dread>>

\* the supervisor is killed without running atexit: stream.pid stays
DCrash(p) ==
  /\ dpc[p] = "guarded"
  /\ dpc' = [dpc EXCEPT ![p] = "exited"]
  /\ UNCHANGED <<mainVars, pidFile, dread>>

DaemonInit == Init /\ cameras = <<>>

DaemonNext ==
  \E p \in Insts :
    \/ DStart(p)
    \/ DExists(p)
    \/ DRead(p)
    \/ DKill(p)
    \/ DRemove(p)
    \/ DWrite(p)
    \/ DExit(p)
    \/ DCrash(p)

SpecDaemon == DaemonInit /\ [][DaemonNext]_vars

\* ---- properties ----

Entries == {processes[k] : k \in 1..Len(processes)}

FeedOf(h) == cameras[workers[h].rec]

Released(h) == ~workers[h].alive /\ ~workers[h].logOpen

\* C1: for every feed id at most one live worker exists, and whenever main
\* stores a handle under an id already in the registry (startup pass or
\* restart) the handle stored before has been released: its worker has exited
\* and its log handle is closed.
C1_OneLiveWorkerPerId ==
  /\ \A id \in Ids :
       Cardinality({h \in Handles : FeedOf(h) = id /\ workers[h].alive}) <= 1
  /\ (ev.op \in {"s_store", "m_store"} /\ ev.old # 0) => Released(ev.old)

\* C2: once cleanup_processes has run, the registry is empty and every log
\* handle ever opened has been closed exactly once.
C2_DrainReleasesOnce ==
  cleanups >= 1 =>
    /\ processes = <<>>
    /\ \A h \in Handles : ~workers[h].logOpen /\ workers[h].closes = 1

\* C3: when the supervisor has exited through the signal handler, no worker
\* is live and no log handle is open, wherever the signal arrived.
C3_SignalDrainsEverything ==
  (pc = "exited" /\ cleanups >= 1) =>
    \A h \in Handles : ~workers[h].alive /\ ~workers[h].logOpen

\* C4: once a feed is abandoned, no validate call and no launch call is made
\* for it again and no worker of it is in the registry again.
C4_AbandonedIsTerminal ==
  [][\A k \in abandoned :
       /\ ~(ev'.op \in {"s_validate", "m_validate", "s_open", "m_open"} /\ ev'.rec = k)
       /\ \A m \in 1..Len(processes') : workers'[processes'[m].h].rec # k]_vars

\* C5: when the monitor loop has finished handling an exited worker, either
\* the relaunch succeeded and the registry maps the id to a new handle
\* distinct from the exited one, or revalidation or launch failed and the id
\* is absent from the registry and the feed is abandoned.
C5_ExitHandledOutcome ==
  /\ ev.op = "m_store" =>
       /\ Has(processes, ev.id)
       /\ Get(processes, ev.id) = ev.h
       /\ ev.h # ev.old
       /\ workers[ev.h].spawned
  /\ (ev.op \in {"m_validate", "m_open", "m_spawn"} /\ ~ev.ok) =>
       /\ ~Has(processes, ev.id)
       /\ ev.rec \in abandoned

C5_Witness ==
  /\ ev.op = "m_validate"
  /\ ~ev.ok
  /\ ~workers[ev.old].alive
  /\ processes # <<>>

\* C6: in the startup pass launch is entered only for a row whose validation
\* returned true, every registry entry belongs to a row that was validated
\* and then launched successfully, and when the monitor loop begins no row
\* whose validation or launch failed has a worker in the registry.
C6_StartupValidateThenLaunch ==
  phase = "startup" =>
    /\ pc \in {"s_open", "s_spawn"} => sres[i] = "vok"
    /\ pc = "s_store" => sres[i] = "lok"
    /\ \A e \in Entries : sres[workers[e.h].rec] = "lok"
    /\ pc = "m_check" =>
         \A k \in 1..Len(cameras) :
           sres[k] \in {"vfail", "lfail"} =>
             \A e \in Entries : workers[e.h].rec # k

C6_Witness ==
  /\ phase = "startup"
  /\ pc = "m_check"
  /\ processes # <<>>
  /\ \E k \in 1..Len(cameras) : sres[k] = "vfail"

\* C7: the startup pass validates every configured row exactly once, whatever
\* the outcome for the rows before it, and every row that validated had its
\* launch attempted.
C7_StartupIndependence ==
  /\ \A k \in 1..Len(cameras) : vcount[k] <= 1
  /\ (phase = "startup" /\ pc = "m_check") =>
       \A k \in 1..Len(cameras) :
         vcount[k] = 1 /\ sres[k] \in {"vfail", "lfail", "lok"}

C7_Witness ==
  /\ phase = "startup"
  /\ pc = "m_check"
  /\ Len(cameras) >= 2
  /\ sres[1] \in {"vfail", "lfail"}
  /\ sres[2] = "lok"
  /\ vcount[2] = 1

\* C8: at the end of a poll pass no registry entry still holds a worker that
\* had already exited when the pass started.
C8_ExitedHandledInPass ==
  pc = "m_sleep" => \A e \in Entries : e.h \notin deadAtStart

C8_Witness ==
  /\ pc = "m_sleep"
  /\ deadAtStart # {}
  /\ processes # <<>>

\* C9: a second cleanup_processes directly after a first one makes no
\* further terminate call and no further log-handle close.
C9_SecondDrainIsNoop ==
  [][(cleanups >= 1 /\ cleanups' = cleanups + 1) =>
       \A h \in Handles :
         /\ workers'[h].terms = workers[h].terms
         /\ workers'[h].closes = workers[h].closes]_vars

\* C10: when terminate() raised for some entry during cleanup_processes,
\* every other registry entry has still been terminated and has its log
\* handle closed.
C10_DrainContinuesPastFailure ==
  (cleanups >= 1 /\ lastFailed # {}) =>
    \A e \in Entries :
      e.h \notin lastFailed =>
        /\ workers[e.h].terms >= cleanups
        /\ ~workers[e.h].alive
        /\ ~workers[e.h].logOpen

C10_Witness ==
  /\ cleanups = 1
  /\ Len(processes) >= 2
  /\ processes[1].h \in lastFailed
  /\ processes[2].h \notin lastFailed
  /\ workers[processes[2].h].terms = 1

\* C11: when the spawn fails, stream_rtsp_to_rtmp returns None with the log
\* handle it opened closed (once) and no worker spawned; the handle never
\* enters the registry, and the registry is changed by nothing but the
\* caller's own del of that id in the restart (not at all in the startup pass).
C11_FailedLaunchReleasesLog ==
  [][(ev'.op \in {"s_spawn", "m_spawn"} /\ ~ev'.ok) =>
       /\ ~workers'[ev'.h].logOpen
       /\ workers'[ev'.h].closes = 1
       /\ ~workers'[ev'.h].spawned
       /\ cur' = 0
       /\ \A m \in 1..Len(processes') : processes'[m].h # ev'.h
       /\ ev'.op = "s_spawn" => processes' = processes
       /\ ev'.op = "m_spawn" => processes' = Del(processes, ev'.id)]_vars

C11_Witness ==
  /\ ev.op = "s_spawn"
  /\ ~ev.ok
  /\ ev.h \in Handles
  /\ ~workers[ev.h].logOpen
  /\ processes # <<>>

\* C12: when no feed is usable at startup (empty feed list, or every row
\* failed validation or launch) the process ends with a non-zero exit status.
C12_NoUsableFeedExitsNonZero ==
  (/\ pc \in {"done", "exited"}
   /\ cleanups = 0
   /\ \A k \in 1..Len(cameras) : sres[k] \in {"vfail", "lfail"}) =>
    exitCode >= 1

\* C13: the per-feed log is append-only: no step, in particular no launch or
\* relaunch, removes output that a worker of the feed has written to it.
C13_LogAppendOnly ==
  [][\A id \in Ids : logs[id] \subseteq logs'[id]]_vars

\* C15: no validate call that has returned holds an open source connection,
\* whatever its exit path.
C15_ValidateReleasesConnection == ~capOpen

\* C16: the entry of a worker observed exited is removed from the registry
\* before revalidation and relaunch begin: while the restart of a feed is
\* validating or launching, the registry holds no entry for that feed.
C16_ExitedEntryRemovedBeforeRevalidation ==
  pc \in {"m_validate", "m_open", "m_spawn"} => ~Has(processes, snap[j].id)

\* C17: a step of the monitor loop that handles one feed's exit (close of its
\* log, revalidation, open, spawn, store or del) leaves the registry entry,
\* the worker, the log handle and the log file of every other feed as they were.
C17_ExitHandlingFrame ==
  [][ev'.op \in {"m_close", "m_validate", "m_open", "m_spawn", "m_store"} =>
       \A e \in Entries :
         e.id # ev'.id =>
           /\ Has(processes', e.id)
           /\ Get(processes', e.id) = e.h
           /\ workers'[e.h] = workers[e.h]
           /\ logs'[e.id] = logs[e.id]]_vars

C17_Witness ==
  /\ ev.op = "m_spawn"
  /\ ~ev.ok
  /\ \E e \in Entries : e.id # ev.id /\ workers[e.h].logOpen

HandlingDone ==
  \/ ev.op = "m_store"
  \/ ev.op \in {"m_validate", "m_open", "m_spawn"} /\ ~ev.ok

\* C18: for one observed exit the restart makes exactly one validate call and
\* at most one launch call; a failed revalidation or launch is not retried:
\* the feed is out of the registry at once and the pass moves on.
C18_OneAttemptPerExit ==
  /\ rv <= 1
  /\ rl <= 1
  /\ pc \in {"m_open", "m_spawn", "m_store"} => rv = 1
  /\ pc \in {"m_spawn", "m_store"} => rl = 1
  /\ HandlingDone => rv = 1
  /\ (HandlingDone /\ ~ev.ok) =>
       /\ ~Has(processes, ev.id)
       /\ pc \in {"m_poll", "m_sleep"}
       /\ rl = (IF ev.op = "m_validate" THEN 0 ELSE 1)

C18_Witness ==
  /\ ev.op = "m_open"
  /\ ~ev.ok
  /\ rv = 1
  /\ rl = 1
  /\ ~Has(processes, ev.id)

\* C19: the monitor loop ends, and main returns, only at a loop test that
\* finds the registry empty, and a loop test that finds an entry starts a
\* pass; once the registry is empty in the monitor phase, main does nothing
\* more than finish the sleep and the loop test: no validate, launch or poll.
C19_LoopRunsWhileRegistryNonEmpty ==
  [][/\ pc' = "done" => (pc = "m_check" /\ processes = <<>> /\ processes' = <<>>)
     /\ (ev'.op = "m_check" /\ processes # <<>>) => pc' = "m_poll"
     /\ (ev'.op = "m_check" /\ processes = <<>>) => pc' = "done"
     /\ (phase = "monitor" /\ processes = <<>> /\ pc \in Running) =>
          /\ pc \in {"m_sleep", "m_check"}
          /\ ev'.op \in {"m_sleep", "m_check", "signal", "worker_exit"}]_vars

C19_Witness ==
  /\ pc = "done"
  /\ phase = "monitor"
  /\ processes = <<>>
  /\ \E h \in Handles : workers[h].spawned /\ workers[h].rec \in abandoned
  /\ ev.op = "m_check"

DistinctIds ==
  \A a, b \in 1..Len(cameras) : a # b => cameras[a] # cameras[b]

StartOfPass == pc = "m_check" \/ (pc = "m_poll" /\ j = 1)

\* C20: with pairwise distinct feed ids and no termination signal, at the
\* start of every poll pass the open log handles are exactly the log handles
\* of the registry's entries.
C20_OpenLogsAreRegistryLogs ==
  (DistinctIds /\ cleanups = 0 /\ StartOfPass) =>
    {h \in Handles : workers[h].logOpen} = {e.h : e \in Entries}

C20_Witness ==
  /\ DistinctIds
  /\ cleanups = 0
  /\ StartOfPass
  /\ phase = "monitor"
  /\ processes # <<>>
  /\ \E h \in Handles : workers[h].spawned /\ ~workers[h].logOpen
  /\ \E h \in Handles : ~workers[h].spawned /\ ~workers[h].logOpen

\* C14: with the run_as_daemon guard at most one supervisor invocation is
\* past the guard at any time, for every interleaving of the invocations.
C14_SingleInstance ==
  Cardinality({p \in Insts : dpc[p] = "guarded"}) <= 1
====
